---- MODULE Spec2Model ----
(***************************************************************************)
(* Kinetix-Lab: the multi-frame / multi-view capture pipeline.             *)
(*                                                                         *)
(* Times are integers counting 1/60 s, so that duration / captureWindow    *)
(* and duration / 2 of the modelled sources are exact.  NaN and undefined  *)
(* are two reserved integers.                                              *)
(***************************************************************************)
EXTENDS Integers, Sequences, FiniteSets, TLC

VARIABLES
    video,          \* player id -> the <video> element behind videoRef
    app,            \* React state of App
    hga,            \* activation of handleGlobalAnalyze
    cmf,            \* activation of captureMultipleFrames
    fpm,            \* activation of findPeak / findPeakMoment
    svc,            \* PoseDetectionService singleton
    oracleCalls,    \* requests handed to callGeminiApi by analyzeMultiViewMovement
    samplerCalls,   \* arguments of every captureMultiFrames call of handleGlobalAnalyze
    mv,             \* input and request of a stand-alone analyzeMultiViewMovement call
    env,            \* the browser: how often getContext('2d') has returned null
    geo             \* input and result of a stand-alone call of the angle functions

vars == <<video, app, hga, cmf, fpm, svc, oracleCalls, samplerCalls, mv, env, geo>>

(* NaN and undefined are two integers no time of the model can take. *)
NaN == 0 - 999999
undefined == 0 - 888888

PlayerIds == {"main", "front", "side"}

----------------------------------------------------------------------------
(* Bounds of the model *)

MaxFrameCount == 4
MaxViews == 3
MaxViewFrames == 5
MaxCtxFailures == 3
MaxQueuedEvents == 2
MaxCallers == 3
MaxLoads == 2

(* Inputs of the stand-alone sampler calls: a 1 s and a 10 s source,      *)
(* centers before, inside and at the end of the source (12 = 0.2 s,       *)
(* 300 = 5.0 s), intervals of -0.5 s, 0, 0.5 s and 10 s.                  *)
SampleDurations == {60, 600}
SampleCenters == {-30, 0, 12, 300, 600}
SampleIntervals == {-30, 0, 30, 600}
SampleStartTimes == {0, 45}

----------------------------------------------------------------------------
(* Math.min / Math.max / Math.floor(x / 2) of JavaScript *)

MathMin(a, b) == IF a = NaN \/ b = NaN THEN NaN ELSE IF a <= b THEN a ELSE b

MathMax(a, b) == IF a = NaN \/ b = NaN THEN NaN ELSE IF a >= b THEN a ELSE b

FloorHalf(n) == n \div 2

----------------------------------------------------------------------------
(* captureMultipleFrames: the frame times *)

HalfFrames(frameCount) == FloorHalf(frameCount)

(* The symmetric loop the comment of the source warns about. *)
StartIndexSymmetric(frameCount) == 0 - FloorHalf(frameCount)

StartIndex(frameCount) == 0 - FloorHalf(frameCount - 1)

EndIndex(frameCount) == FloorHalf(frameCount)

(* Frame times without the lower, without the upper clamp. *)
FrameTimeNoFloor(duration, centerTime, intervalSeconds, i) ==
    MathMin(duration, centerTime + (i * intervalSeconds))

FrameTimeNoCeil(duration, centerTime, intervalSeconds, i) ==
    MathMax(0, centerTime + (i * intervalSeconds))

FrameTime(duration, centerTime, intervalSeconds, i) ==
    MathMax(0, MathMin(duration, centerTime + (i * intervalSeconds)))

FrameTimes(duration, centerTime, frameCount, intervalSeconds) ==
    LET n == EndIndex(frameCount) - StartIndex(frameCount) + 1
    IN  [k \in 1..(IF n > 0 THEN n ELSE 0) |->
            FrameTime(duration, centerTime, intervalSeconds,
                      StartIndex(frameCount) + (k - 1))]

(* An index rounded up instead of down. *)
CenterFrameIndexCeil(frameCount) == FloorHalf(frameCount + 1)

CenterFrameIndex(frameCount) == HalfFrames(frameCount)

----------------------------------------------------------------------------
(* The <video> element: the setter of currentTime moves the official       *)
(* position at once and starts a seek; 'seeked' fires when it completes,   *)
(* and only then the displayed frame (shown) is the one of currentTime.    *)
(* latestTelemetry is the latestTelemetryRef of the player of the source.  *)
(* queued counts the 'seeked' events the browser has queued for the        *)
(* source and not yet dispatched.                                          *)

NoVideo == [has |-> FALSE, duration |-> NaN, currentTime |-> 0,
            seeking |-> FALSE, shown |-> 0, latestTelemetry |-> <<>>,
            stalled |-> FALSE, queued |-> 0]

LoadedVideo(d, t) == [has |-> TRUE, duration |-> d, currentTime |-> t,
                      seeking |-> FALSE, shown |-> t, latestTelemetry |-> <<>>,
                      stalled |-> FALSE, queued |-> 0]

SetCurrentTime(v, t) == [v EXCEPT !.currentTime = t, !.seeking = TRUE]

FireSeeked(v) == [v EXCEPT !.seeking = FALSE, !.shown = v.currentTime]

----------------------------------------------------------------------------
(* canvas.toDataURL('image/jpeg', 0.8) of the frame of source id shown at  *)
(* time t: a header, a comma and the payload.                              *)

ToDataURL(id, t) == << <<"data:image/jpeg;base64">>, <<",">>, <<id, t>> >>

----------------------------------------------------------------------------
(* PoseDetectionService: lazy initialisation of the image-mode landmarker  *)
(* and detectPoseFrame.  A failed initialisation leaves imageLandmarker    *)
(* null and its rejected promise cached, so every later call rejects.      *)

InitImageOutcomes == IF svc.imageInit = "unset" THEN {"ready", "failed"}
                     ELSE {svc.imageInit}

DetectPoseFrameOutcomes(init) == IF init = "failed" THEN {"reject"}
                                 ELSE {"pose", "none"}

(* The three models of the service, and the concurrent callers of its     *)
(* detection methods.                                                      *)
Modes == {"image", "video", "object"}
Callers == 1..MaxCallers

(* imageInit and videoInit are the outcome of the initialisation as the    *)
(* players see it.  initPromise, landmarker, loads, created and callers    *)
(* are the initialisation step by step: initPromiseImage/Video/Object      *)
(* (null, or the number of the promise), imageLandmarker, videoLandmarker  *)
(* and objectDetector (null or "model"), the progress of the promise, how  *)
(* many initialisations were started and how often createFromOptions was   *)
(* called per mode, and what each caller awaits.                           *)
IdleSvc == [imageInit |-> "unset", videoInit |-> "unset", videoCalls |-> <<>>,
            initPromise |-> [m \in Modes |-> 0],
            progress |-> [m \in Modes |-> "none"],
            landmarker |-> [m \in Modes |-> "null"],
            loads |-> [m \in Modes |-> 0],
            created |-> [m \in Modes |-> 0],
            callers |-> [c \in Callers |-> [pc |-> "idle"]]]

----------------------------------------------------------------------------
(* Activations *)

IdleCmf == [pc |-> "idle"]
IdleFpm == [pc |-> "idle"]
IdleHga == [pc |-> "idle"]
IdleApp == [viewMode |-> "setup"]
IdleMv == [pc |-> "idle", request |-> undefined]
IdleGeo == [pc |-> "idle"]

(* A call that centres its slots on the position the source stands at. *)
EnterCmfAtCurrent(caller, id, centerTime, frameCount, intervalSeconds, onFrame) ==
    [pc |-> "seek", caller |-> caller, vid |-> id,
     centerTime |-> centerTime, frameCount |-> frameCount,
     intervalSeconds |-> intervalSeconds, onFrame |-> onFrame,
     originalTime |-> video[id].currentTime,
     entryTime |-> video[id].currentTime,
     halfFrames |-> HalfFrames(frameCount),
     frameTimes |-> FrameTimes(video[id].duration, video[id].currentTime,
                               frameCount, intervalSeconds),
     k |-> 1, frames |-> <<>>, timestamps |-> <<>>, skipped |-> 0,
     result |-> undefined]

(* const frames = [], timestamps = [], originalTime = currentTime;         *)
(* frameTimes computed before the capture loop.                            *)
EnterCmf(caller, id, centerTime, frameCount, intervalSeconds, onFrame) ==
    [pc |-> "seek", caller |-> caller, vid |-> id,
     centerTime |-> centerTime, frameCount |-> frameCount,
     intervalSeconds |-> intervalSeconds, onFrame |-> onFrame,
     originalTime |-> video[id].currentTime,
     entryTime |-> video[id].currentTime,
     halfFrames |-> HalfFrames(frameCount),
     frameTimes |-> FrameTimes(video[id].duration, centerTime, frameCount,
                               intervalSeconds),
     k |-> 1, frames |-> <<>>, timestamps |-> <<>>, skipped |-> 0,
     result |-> undefined]

----------------------------------------------------------------------------
(* captureMultipleFrames: the capture loop *)

(* A return that leaves the source where the last slot put it. *)
RestoreTargetLastSlot(c) == video[c.vid].currentTime

(* videoElement.currentTime = originalTime *)
RestoreTarget(c) == c.originalTime

(* for (const time of frameTimes) { videoElement.currentTime = time; ...   *)
(* Setting currentTime to NaN throws a TypeError out of the function.      *)
CMF_SeekNext ==
    /\ cmf.pc = "seek"
    /\ cmf.k <= Len(cmf.frameTimes)
    /\ LET time == cmf.frameTimes[cmf.k]
       IN  IF time = NaN
           THEN /\ cmf' = [cmf EXCEPT !.pc = "thrown"]
                /\ UNCHANGED video
           ELSE /\ video' = [video EXCEPT ![cmf.vid] = SetCurrentTime(@, time)]
                /\ cmf' = [cmf EXCEPT !.pc = "wait"]
    /\ UNCHANGED <<app, hga, fpm, svc, oracleCalls, samplerCalls, mv, env, geo>>

(* The slot after 'seeked': a canvas, drawImage, onFrame, toDataURL, push. *)
(* A null 2D context skips the slot.                                       *)
CMF_RenderSkip ==
    /\ cmf.pc = "render"
    /\ env.ctxFailures < MaxCtxFailures
    /\ env' = [env EXCEPT !.ctxFailures = @ + 1]
    /\ cmf' = [cmf EXCEPT !.pc = "seek", !.k = @ + 1, !.skipped = @ + 1]
    /\ UNCHANGED <<video, app, hga, fpm, svc, oracleCalls, samplerCalls, mv, geo>>

(* onFrame is the onFrameDraw of captureMultiFrames: detectPoseFrame and,  *)
(* with a pose, the overlay.                                               *)
CMF_RenderFrame ==
    /\ cmf.pc = "render"
    /\ LET time == cmf.frameTimes[cmf.k]
           pushed == [cmf EXCEPT !.pc = "seek", !.k = @ + 1,
                        !.frames = Append(@, ToDataURL(cmf.vid, video[cmf.vid].shown)),
                        !.timestamps = Append(@, time)]
       IN  IF cmf.onFrame
           THEN \E init \in InitImageOutcomes :
                \E outcome \in DetectPoseFrameOutcomes(init) :
                    /\ svc' = [svc EXCEPT !.imageInit = init]
                    /\ cmf' = IF outcome = "reject"
                              THEN [cmf EXCEPT !.pc = "thrown"]
                              ELSE pushed
           ELSE /\ cmf' = pushed
                /\ UNCHANGED svc
    /\ UNCHANGED <<video, app, hga, fpm, oracleCalls, samplerCalls, mv, env, geo>>

(* videoElement.currentTime = originalTime; return { frames, timestamps,   *)
(* centerFrameIndex: halfFrames }: the restoring seek is not awaited.      *)
CMF_Restore ==
    /\ cmf.pc = "seek"
    /\ cmf.k > Len(cmf.frameTimes)
    /\ video' = [video EXCEPT ![cmf.vid] = SetCurrentTime(@, RestoreTarget(cmf))]
    /\ cmf' = [cmf EXCEPT !.pc = "returned",
                 !.result = [frames |-> cmf.frames,
                             timestamps |-> cmf.timestamps,
                             centerFrameIndex |-> CenterFrameIndex(cmf.frameCount)]]
    /\ UNCHANGED <<app, hga, fpm, svc, oracleCalls, samplerCalls, mv, env, geo>>

(* The browser completes the pending seek of a source and fires 'seeked':  *)
(* the listener of the awaiting capture loop or scan loop resolves.  The   *)
(* seek of a stalled source does not complete.                             *)
Seeked ==
    \E id \in PlayerIds :
        /\ video[id].seeking
        /\ ~video[id].stalled
        /\ video' = [video EXCEPT ![id] = FireSeeked(@)]
        /\ cmf' = IF cmf.pc = "wait" /\ cmf.vid = id
                  THEN [cmf EXCEPT !.pc = "render"] ELSE cmf
        /\ fpm' = IF fpm.pc = "wait" /\ fpm.vid = id
                  THEN [fpm EXCEPT !.pc = "detect"] ELSE fpm
        /\ UNCHANGED <<app, hga, svc, oracleCalls, samplerCalls, mv, env, geo>>

----------------------------------------------------------------------------
(* Stand-alone calls of captureMultipleFrames on one loaded source *)

InitSample ==
    /\ \E d \in SampleDurations : \E t \in SampleStartTimes :
          video = [id \in PlayerIds |->
                     IF id = "main" THEN LoadedVideo(d, t) ELSE NoVideo]
    /\ app = IdleApp
    /\ hga = IdleHga
    /\ cmf = IdleCmf
    /\ fpm = IdleFpm
    /\ svc = IdleSvc
    /\ oracleCalls = <<>>
    /\ samplerCalls = <<>>
    /\ mv = IdleMv
    /\ env = [ctxFailures |-> 0]
    /\ geo = IdleGeo

SampleCall ==
    /\ cmf.pc = "idle"
    /\ \E centerTime \in SampleCenters : \E frameCount \in 1..MaxFrameCount :
       \E intervalSeconds \in SampleIntervals : \E onFrame \in BOOLEAN :
          cmf' = EnterCmf("direct", "main", centerTime, frameCount,
                          intervalSeconds, onFrame)
    /\ UNCHANGED <<video, app, hga, fpm, svc, oracleCalls, samplerCalls, mv, env, geo>>

NextSample ==
    \/ SampleCall
    \/ CMF_SeekNext
    \/ Seeked
    \/ CMF_RenderSkip
    \/ CMF_RenderFrame
    \/ CMF_Restore

SpecSample == InitSample /\ [][NextSample]_vars

----------------------------------------------------------------------------
(* Two calls of captureMultipleFrames in a row on one source.  The end of *)
(* a seek is two steps of the browser: the seek algorithm finishes (the   *)
(* frame of currentTime is displayed, seeking becomes false, a task that  *)
(* fires 'seeked' is queued), and later the task runs.  Seeked is both    *)
(* steps at once, which is exact as long as no listener is registered     *)
(* between them; a second call can be started by a task in between.       *)

RepeatCenters == {12, 300}
RepeatIntervals == {30}

(* The seek algorithm of a source finishes and queues its 'seeked' event. *)
SeekCompletes ==
    /\ \E id \in PlayerIds :
          /\ video[id].seeking
          /\ ~video[id].stalled
          /\ video[id].queued < MaxQueuedEvents
          /\ video' = [video EXCEPT ![id] =
                          [FireSeeked(@) EXCEPT !.queued = @ + 1]]
    /\ UNCHANGED <<app, hga, cmf, fpm, svc, oracleCalls, samplerCalls, mv, env, geo>>

(* A queued 'seeked' event is dispatched: onSeeked removes itself and     *)
(* resolves the promise the capture loop awaits, whichever seek the event *)
(* belongs to.                                                            *)
SeekedEvent ==
    /\ \E id \in PlayerIds :
          /\ video[id].queued > 0
          /\ video' = [video EXCEPT ![id].queued = @ - 1]
          /\ cmf' = IF cmf.pc = "wait" /\ cmf.vid = id
                    THEN [cmf EXCEPT !.pc = "render"] ELSE cmf
    /\ UNCHANGED <<app, hga, fpm, svc, oracleCalls, samplerCalls, mv, env, geo>>

(* The first call *)
RepeatCall ==
    /\ cmf.pc = "idle"
    /\ \E centerTime \in RepeatCenters : \E frameCount \in 1..MaxFrameCount :
       \E intervalSeconds \in RepeatIntervals : \E onFrame \in BOOLEAN :
          cmf' = EnterCmf("direct", "main", centerTime, frameCount,
                          intervalSeconds, onFrame)
    /\ UNCHANGED <<video, app, hga, fpm, svc, oracleCalls, samplerCalls, mv, env, geo>>

(* The user drags the scrubber after the first call has returned. *)
ScrubBetweenCalls ==
    /\ cmf.pc = "returned"
    /\ "first" \notin DOMAIN cmf
    /\ \E t \in SampleStartTimes :
          video' = [video EXCEPT ![cmf.vid] = SetCurrentTime(@, t)]
    /\ UNCHANGED <<app, hga, cmf, fpm, svc, oracleCalls, samplerCalls, mv, env, geo>>

(* The second call, with the arguments of the first; first keeps what the *)
(* first call returned.                                                    *)
SampleAgain ==
    /\ cmf.pc = "returned"
    /\ "first" \notin DOMAIN cmf
    /\ cmf' = EnterCmf("direct", cmf.vid, cmf.centerTime, cmf.frameCount,
                       cmf.intervalSeconds, cmf.onFrame)
                 @@ [first |-> [result |-> cmf.result, skipped |-> cmf.skipped,
                                entryTime |-> cmf.entryTime]]
    /\ UNCHANGED <<video, app, hga, fpm, svc, oracleCalls, samplerCalls, mv, env, geo>>

NextRepeat ==
    \/ RepeatCall
    \/ CMF_SeekNext
    \/ SeekCompletes
    \/ SeekedEvent
    \/ CMF_RenderSkip
    \/ CMF_RenderFrame
    \/ CMF_Restore
    \/ ScrubBetweenCalls
    \/ SampleAgain

SpecRepeat == InitSample /\ [][NextRepeat]_vars

----------------------------------------------------------------------------
(* PoseDetectionService: concurrent first callers of the detection methods *)

Methods == {"detectPoseFrame", "detectPoseFromImage", "detectPoseFromVideo",
            "detectBallFrame"}

(* detectPoseFromImage and detectPoseFrame use the image-mode landmarker,  *)
(* detectPoseFromVideo the video-mode one, detectBallFrame the detector.   *)
ModeOf(method) == IF method = "detectPoseFromVideo" THEN "video"
                  ELSE IF method = "detectBallFrame" THEN "object" ELSE "image"

(* An initializer that looks at the finished model only. *)
HasInitModelOnly(s, mode) == s.landmarker[mode] # "null"

(* if (this.initPromiseImage) return this.initPromiseImage *)
HasInit(s, mode) == s.initPromise[mode] # 0

InitService ==
    /\ video = [id \in PlayerIds |-> NoVideo]
    /\ app = IdleApp
    /\ hga = IdleHga
    /\ cmf = IdleCmf
    /\ fpm = IdleFpm
    /\ svc = IdleSvc
    /\ oracleCalls = <<>>
    /\ samplerCalls = <<>>
    /\ mv = IdleMv
    /\ env = [ctxFailures |-> 0]
    /\ geo = IdleGeo

(* A detection method up to its first await, in one task: with the model   *)
(* it detects and returns; without it it calls the initializer, which      *)
(* returns the stored promise or starts the initialisation and stores its  *)
(* promise.                                                                *)
DetectCall ==
    /\ \E c \in Callers : \E method \in Methods :
          LET mode == ModeOf(method)
          IN  /\ svc.callers[c].pc = "idle"
              /\ IF svc.landmarker[mode] # "null"
                 THEN svc' = [svc EXCEPT !.callers[c] =
                                 [pc |-> "idle", method |-> method, outcome |-> "detected"]]
                 ELSE IF HasInit(svc, mode)
                 THEN svc' = [svc EXCEPT !.callers[c] =
                                 [pc |-> "await", method |-> method,
                                  promise |-> svc.initPromise[mode]]]
                 ELSE /\ svc.loads[mode] < MaxLoads
                      /\ svc' = [svc EXCEPT
                            !.loads[mode] = @ + 1,
                            !.initPromise[mode] = svc.loads[mode] + 1,
                            !.progress[mode] = "vision",
                            !.callers[c] =
                                 [pc |-> "await", method |-> method,
                                  promise |-> svc.loads[mode] + 1]]
    /\ UNCHANGED <<video, app, hga, cmf, fpm, oracleCalls, samplerCalls, mv, env, geo>>

(* const vision = await this.createVision() resolves and createFromOptions *)
(* is called, or it rejects and with it the promise.                       *)
VisionLoaded ==
    /\ \E mode \in Modes : \E ok \in BOOLEAN :
          /\ svc.progress[mode] = "vision"
          /\ svc' = IF ok
                    THEN [svc EXCEPT !.progress[mode] = "create",
                                     !.created[mode] = @ + 1]
                    ELSE [svc EXCEPT !.progress[mode] = "rejected"]
    /\ UNCHANGED <<video, app, hga, cmf, fpm, oracleCalls, samplerCalls, mv, env, geo>>

(* this.imageLandmarker = await PoseLandmarker.createFromOptions(...) *)
ModelCreated ==
    /\ \E mode \in Modes : \E ok \in BOOLEAN :
          /\ svc.progress[mode] = "create"
          /\ svc' = IF ok
                    THEN [svc EXCEPT !.progress[mode] = "fulfilled",
                                     !.landmarker[mode] = "model"]
                    ELSE [svc EXCEPT !.progress[mode] = "rejected"]
    /\ UNCHANGED <<video, app, hga, cmf, fpm, oracleCalls, samplerCalls, mv, env, geo>>

(* A caller resumes after its await: it detects, or rejects with the       *)
(* initialisation.                                                         *)
DetectResume ==
    /\ \E c \in Callers :
          LET mode == ModeOf(svc.callers[c].method)
          IN  /\ svc.callers[c].pc = "await"
              /\ svc.progress[mode] \in {"fulfilled", "rejected"}
              /\ svc' = [svc EXCEPT !.callers[c] =
                            [pc |-> "idle", method |-> svc.callers[c].method,
                             outcome |-> IF svc.progress[mode] = "fulfilled"
                                         THEN "detected" ELSE "rejected"]]
    /\ UNCHANGED <<video, app, hga, cmf, fpm, oracleCalls, samplerCalls, mv, env, geo>>

NextService ==
    \/ DetectCall
    \/ VisionLoaded
    \/ ModelCreated
    \/ DetectResume

SpecService == InitService /\ [][NextService]_vars

----------------------------------------------------------------------------
(* Claims about the initialisation of the service, checked under           *)
(* SpecService                                                             *)

(* C27: whatever the interleaving of the first callers of detectPoseFrame, *)
(* detectPoseFromImage, detectPoseFromVideo and detectBallFrame, each of   *)
(* the three models is created at most once; every caller that waits for a *)
(* mode waits for the one promise of the mode, and a stored promise is     *)
(* never replaced, pending, fulfilled or rejected.                         *)
ThmC27_ModelCreatedOnce ==
    /\ \A mode \in Modes :
          /\ svc.created[mode] <= 1
          /\ svc.loads[mode] <= 1
          /\ svc.initPromise[mode] = svc.loads[mode]
    /\ \A c \in Callers :
          svc.callers[c].pc = "await"
              => svc.callers[c].promise = 1

WitC27_TwoMethodsOnePromise ==
    /\ svc.callers[1].pc = "await"
    /\ svc.callers[1].method = "detectPoseFrame"
    /\ svc.callers[2].pc = "await"
    /\ svc.callers[2].method = "detectPoseFromImage"
    /\ svc.callers[3].pc = "idle"
    /\ "outcome" \in DOMAIN svc.callers[3]
    /\ svc.callers[3].outcome = "rejected"
    /\ svc.callers[3].method = "detectBallFrame"
    /\ svc.progress["image"] = "create"
    /\ svc.created["image"] = 1

----------------------------------------------------------------------------
(* Stand-alone calls of captureMultipleFrames on a source that may stall  *)

(* The source stalls during a seek (the network, the decoder): 'seeked'   *)
(* is not fired for it.  The capture loop has registered no other         *)
(* listener and no timer.                                                  *)
SourceStalls ==
    /\ \E id \in PlayerIds :
          /\ video[id].seeking
          /\ ~video[id].stalled
          /\ video' = [video EXCEPT ![id].stalled = TRUE]
    /\ UNCHANGED <<app, hga, cmf, fpm, svc, oracleCalls, samplerCalls, mv, env, geo>>

NextStall ==
    \/ SampleCall
    \/ CMF_SeekNext
    \/ Seeked
    \/ SourceStalls
    \/ CMF_RenderSkip
    \/ CMF_RenderFrame
    \/ CMF_Restore

(* The event loop runs every continuation of the call that is ready, and  *)
(* the browser completes every seek of a source that has not stalled.     *)
SpecStall ==
    /\ InitSample
    /\ [][NextStall]_vars
    /\ WF_vars(CMF_SeekNext \/ CMF_RenderSkip \/ CMF_RenderFrame \/ CMF_Restore)
    /\ WF_vars(Seeked)

----------------------------------------------------------------------------
(* Claims about captureMultipleFrames, checked under SpecSample *)

Returned == cmf.pc = "returned"

Abs(x) == IF x < 0 THEN 0 - x ELSE x

Clamp(x, lo, hi) == IF x < lo THEN lo ELSE IF x > hi THEN hi ELSE x

SourceDuration == video[cmf.vid].duration

(* The time requested for the k-th slot (0-based), written from the claim. *)
ExpectedTime(k) ==
    Clamp(cmf.centerTime + (k - ((cmf.frameCount - 1) \div 2)) * cmf.intervalSeconds,
          0, SourceDuration)

(* No requested time falls outside [0, duration]. *)
NoTimestampClamped ==
    \A i \in (0 - ((cmf.frameCount - 1) \div 2))..(cmf.frameCount \div 2) :
        LET raw == cmf.centerTime + i * cmf.intervalSeconds
        IN  0 <= raw /\ raw <= SourceDuration

(* C1: when every per-frame render succeeds, a call with frameCount >= 1   *)
(* returns exactly frameCount frames and exactly frameCount timestamps,    *)
(* for odd and even frameCount alike.                                      *)
ThmC1_ExactFrameCount ==
    (Returned /\ cmf.frameCount >= 1 /\ cmf.skipped = 0)
        => /\ Len(cmf.result.frames) = cmf.frameCount
           /\ Len(cmf.result.timestamps) = cmf.frameCount

WitC1_EvenCountReturned ==
    /\ Returned
    /\ cmf.frameCount = 4
    /\ cmf.skipped = 0
    /\ Len(cmf.result.frames) = 4
    /\ cmf.intervalSeconds = 30

(* C3: after a normal return the source's currentTime is the value it had  *)
(* immediately before the call.                                            *)
ThmC3_SamplerRestoresTime ==
    Returned => video[cmf.vid].currentTime = cmf.entryTime

WitC3_RestoredAfterSeeks ==
    /\ Returned
    /\ cmf.entryTime = 45
    /\ Len(cmf.result.timestamps) >= 2
    /\ cmf.result.timestamps[Len(cmf.result.timestamps)] # 45
    /\ video[cmf.vid].currentTime = 45

(* C5: with frameCount >= 1 and intervalSeconds >= 0 the returned          *)
(* timestamps are non-decreasing in list order and each lies in            *)
(* [0, duration]; none is negative when centerTime is near 0.              *)
ThmC5_TimestampsOrderedInRange ==
    (Returned /\ cmf.frameCount >= 1 /\ cmf.intervalSeconds >= 0)
        => \A k \in 1..Len(cmf.result.timestamps) :
              /\ 0 <= cmf.result.timestamps[k]
              /\ cmf.result.timestamps[k] <= SourceDuration
              /\ k > 1 => cmf.result.timestamps[k - 1] <= cmf.result.timestamps[k]

WitC5_ClampedNearStart ==
    /\ Returned
    /\ cmf.centerTime = 12
    /\ cmf.intervalSeconds = 30
    /\ cmf.frameCount = 3
    /\ cmf.result.timestamps = <<0, 12, 42>>

(* C6: with frameCount >= 1, intervalSeconds > 0 and no timestamp clamped, *)
(* no frame of the returned set has a timestamp closer to centerTime than  *)
(* the frame at centerFrameIndex.                                          *)
CexC6_CenterIndexNearest ==
    (Returned /\ cmf.frameCount >= 1 /\ cmf.intervalSeconds > 0
        /\ NoTimestampClamped /\ cmf.skipped = 0)
        => /\ cmf.result.centerFrameIndex + 1 \in 1..Len(cmf.result.timestamps)
           /\ \A j \in 1..Len(cmf.result.timestamps) :
                 Abs(cmf.result.timestamps[cmf.result.centerFrameIndex + 1]
                       - cmf.centerTime)
                   <= Abs(cmf.result.timestamps[j] - cmf.centerTime)

ThmC13_CenterIndexInRange ==
    (Returned /\ cmf.frameCount >= 1)
        => /\ 0 <= cmf.result.centerFrameIndex
           /\ cmf.result.centerFrameIndex < cmf.frameCount

WitC13_SingleFrame ==
    /\ Returned
    /\ cmf.frameCount = 1
    /\ Len(cmf.result.frames) = 1
    /\ cmf.result.centerFrameIndex = 0

(* C14: for centerTime in [0, duration], frameCount >= 2 and an interval   *)
(* > 0 the returned timestamps are strictly increasing in list order, also *)
(* when clamping to [0, duration] applies.                                 *)
CexC14_TimestampsStrictlyIncreasing ==
    (Returned /\ 0 <= cmf.centerTime /\ cmf.centerTime <= SourceDuration
        /\ cmf.frameCount >= 2 /\ cmf.intervalSeconds > 0)
        => \A k \in 2..Len(cmf.result.timestamps) :
              cmf.result.timestamps[k - 1] < cmf.result.timestamps[k]

(* C30: when captureMultipleFrames fails in the middle of a pass (the      *)
(* onFrame callback rejects at some slot), the source's currentTime is     *)
(* back at the value it had before the call when the failure reaches the   *)
(* caller.                                                                 *)
CexC30_RestoredOnError ==
    cmf.pc = "thrown" => video[cmf.vid].currentTime = cmf.entryTime

(* C15: if the seek of one slot never completes (no 'seeked' is fired),    *)
(* captureMultipleFrames skips that slot and still eventually returns.     *)
CexC15_StalledSlotSkipped ==
    (cmf.pc = "wait" /\ video[cmf.vid].stalled) ~> (cmf.pc = "returned")

----------------------------------------------------------------------------
(* Claims about two calls in a row, checked under SpecRepeat *)

SecondReturned == Returned /\ "first" \in DOMAIN cmf

CexC23_DrawnAtSlotTime ==
    cmf.pc # "idle"
        => /\ cmf.pc = "render"
                 => /\ ~video[cmf.vid].seeking
                    /\ video[cmf.vid].shown = cmf.frameTimes[cmf.k]
           /\ \A k \in 1..Len(cmf.frames) :
                 cmf.frames[k][3] = <<cmf.vid, cmf.timestamps[k]>>

----------------------------------------------------------------------------
(* analyzeMultiViewMovement: the index mapping and the flat image list *)

Comma == <<",">>

(* base64.includes(',') *)
IncludesComma(base64) == \E i \in 1..Len(base64) : base64[i] = Comma

(* The position of the first comma at or after position from, or 0. *)
IndexOfComma(base64, from) ==
    IF \E i \in from..Len(base64) : base64[i] = Comma
    THEN CHOOSE i \in from..Len(base64) :
            /\ base64[i] = Comma
            /\ \A j \in from..(i - 1) : base64[j] # Comma
    ELSE 0

(* base64.split(',')[1]: what lies between the first comma and the next. *)
SplitSecond(base64) ==
    LET first == IndexOfComma(base64, 1)
        next == IndexOfComma(base64, first + 1)
    IN  SubSeq(base64, first + 1, IF next = 0 THEN Len(base64) ELSE next - 1)

(* base64.includes(',') ? base64.split(',')[1] : base64 *)
CleanBase64(base64) ==
    IF IncludesComma(base64) THEN SplitSecond(base64) ELSE base64

RECURSIVE MappingTableOffByOne(_, _)
(* A table whose end is one past the view's last image. *)
MappingTableOffByOne(views, currentIndex) ==
    IF views = <<>> THEN <<>>
    ELSE LET v == Head(views)
         IN  <<[start |-> currentIndex,
                end |-> currentIndex + Len(v.frames),
                label |-> v.label,
                count |-> Len(v.frames)]>>
             \o MappingTableOffByOne(Tail(views), currentIndex + Len(v.frames))

RECURSIVE MappingTable(_, _)
(* let currentIndex = 1; input.views.map(v => { start, end, currentIndex   *)
(* += v.frames.length; "Global Images start-end correspond to label        *)
(* Frames 1-count" })                                                      *)
MappingTable(views, currentIndex) ==
    IF views = <<>> THEN <<>>
    ELSE LET v == Head(views)
         IN  <<[start |-> currentIndex,
                end |-> currentIndex + Len(v.frames) - 1,
                label |-> v.label,
                count |-> Len(v.frames)]>>
             \o MappingTable(Tail(views), currentIndex + Len(v.frames))

RECURSIVE AllImageParts(_)
(* input.views.forEach(view => view.frames.forEach(base64 =>               *)
(*     allImageParts.push({ inlineData: { mimeType, data: cleanBase64 }})))*)
AllImageParts(views) ==
    IF views = <<>> THEN <<>>
    ELSE LET v == Head(views)
         IN  [j \in 1..Len(v.frames) |->
                 [mimeType |-> "image/jpeg", data |-> CleanBase64(v.frames[j])]]
             \o AllImageParts(Tail(views))

RECURSIVE TotalImages(_)
(* input.views.reduce((acc, v) => acc + v.frames.length, 0) *)
TotalImages(views) ==
    IF views = <<>> THEN 0 ELSE Len(Head(views).frames) + TotalImages(Tail(views))

(* The parts handed to callGeminiApi: the images, then the prompt text     *)
(* with its total and its mapping table.                                   *)
BuildMultiViewRequest(input) ==
    [images |-> AllImageParts(input.views),
     text |-> [totalImages |-> TotalImages(input.views),
               mappingTable |-> MappingTable(input.views, 1)]]

----------------------------------------------------------------------------
(* Stand-alone calls of analyzeMultiViewMovement on arbitrary view lists *)

(* The label of the i-th view of an input *)
ViewLabelAt(i) == IF i = 1 THEN "Front View"
                  ELSE IF i = 2 THEN "Side View" ELSE "Main View"

(* Frame j of the i-th view: a data URL as toDataURL produces it, or bare  *)
(* base64.                                                                 *)
ViewFrame(i, j, bare) ==
    IF bare THEN << <<i, j>> >> ELSE ToDataURL(i, j)

InitMulti ==
    /\ video = [id \in PlayerIds |-> NoVideo]
    /\ app = IdleApp
    /\ hga = IdleHga
    /\ cmf = IdleCmf
    /\ fpm = IdleFpm
    /\ svc = IdleSvc
    /\ oracleCalls = <<>>
    /\ samplerCalls = <<>>
    /\ env = [ctxFailures |-> 0]
    /\ geo = IdleGeo
    /\ \E n \in 0..MaxViews : \E sizes \in [1..n -> 0..MaxViewFrames] :
       \E bare \in BOOLEAN :
          mv = [pc |-> "input", request |-> undefined,
                input |-> [views |-> [i \in 1..n |->
                              [label |-> ViewLabelAt(i),
                               frames |-> [j \in 1..sizes[i] |->
                                             ViewFrame(i, j, bare)]]]]]

(* analyzeMultiViewMovement up to the call of callGeminiApi *)
MultiBuild ==
    /\ mv.pc = "input"
    /\ mv' = [mv EXCEPT !.pc = "sent", !.request = BuildMultiViewRequest(mv.input)]
    /\ UNCHANGED <<video, app, hga, cmf, fpm, svc, oracleCalls, samplerCalls, env, geo>>

(* callGeminiApi resolves with the response *)
MultiResolve ==
    /\ mv.pc = "sent"
    /\ mv' = [mv EXCEPT !.pc = "resolved"]
    /\ UNCHANGED <<video, app, hga, cmf, fpm, svc, oracleCalls, samplerCalls, env, geo>>

(* callGeminiApi rejects: catch, console.error, throw error *)
MultiReject ==
    /\ mv.pc = "sent"
    /\ mv' = [mv EXCEPT !.pc = "rejected"]
    /\ UNCHANGED <<video, app, hga, cmf, fpm, svc, oracleCalls, samplerCalls, env, geo>>

NextMulti ==
    \/ MultiBuild
    \/ MultiResolve
    \/ MultiReject

SpecMulti == InitMulti /\ [][NextMulti]_vars

----------------------------------------------------------------------------
(* Claims about analyzeMultiViewMovement, checked under SpecMulti *)

RECURSIVE CountBefore(_, _)
(* The number of frames of the views before view v. *)
CountBefore(views, v) ==
    IF v <= 1 THEN 0 ELSE Len(views[v - 1].frames) + CountBefore(views, v - 1)

(* The views whose announced range contains the global position p. *)
ViewsAnnouncing(table, p) ==
    {v \in 1..Len(table) : table[v].start <= p /\ p <= table[v].end}

(* C2: the flat image at global position p is local frame p - (count of    *)
(* the earlier views) of the one view whose announced range contains p;    *)
(* the ranges are contiguous, disjoint and cover exactly 1..total.  For    *)
(* sizes [3,5], position 4 is (view 2, frame 1), position 8 (view 2,       *)
(* frame 5).                                                               *)
ThmC2_IndexMapping ==
    mv.pc = "sent" =>
        LET views == mv.input.views
            table == mv.request.text.mappingTable
            images == mv.request.images
            total == CountBefore(views, Len(views) + 1)
        IN  /\ Len(images) = total
            /\ mv.request.text.totalImages = total
            /\ Len(table) = Len(views)
            /\ \A v \in 1..Len(table) :
                  /\ table[v].start = (IF v = 1 THEN 1 ELSE table[v - 1].end + 1)
                  /\ table[v].end - table[v].start + 1 = Len(views[v].frames)
                  /\ table[v].label = views[v].label
            /\ Len(table) > 0 => table[Len(table)].end = total
            /\ \A p \in 1..total :
                  /\ Cardinality(ViewsAnnouncing(table, p)) = 1
                  /\ \A v \in ViewsAnnouncing(table, p) :
                        /\ p - CountBefore(views, v) \in 1..table[v].count
                        /\ images[p].data = << <<v, p - CountBefore(views, v)>> >>
            /\ (Len(views) = 2 /\ Len(views[1].frames) = 3
                  /\ Len(views[2].frames) = 5)
                  => /\ ViewsAnnouncing(table, 4) = {2}
                     /\ images[4].data = << <<2, 1>> >>
                     /\ ViewsAnnouncing(table, 8) = {2}
                     /\ images[8].data = << <<2, 5>> >>

WitC2_ThreeFive ==
    /\ mv.pc = "sent"
    /\ Len(mv.input.views) = 2
    /\ Len(mv.input.views[1].frames) = 3
    /\ Len(mv.input.views[2].frames) = 5
    /\ mv.input.views[2].label = "Side View"
    /\ mv.input.views[2].frames[1] = ToDataURL(2, 1)
    /\ mv.request.images[4].data = << <<2, 1>> >>
    /\ mv.request.text.mappingTable[2].start = 4
    /\ mv.request.text.mappingTable[2].end = 8

----------------------------------------------------------------------------
(* App: handleGlobalAnalyze over the mounted players *)

(* Bounds and inputs: sources of 1 s, or with unknown duration, standing   *)
(* at 0 or at 0.25 s; the three smallest frame counts of the selector      *)
(* [1, 3, 5, 10].                                                          *)
AppDurations == {60}
AppStartTimes == {0, 15}
CaptureWindows == {1, 3, 5}
PoseScores == {0, 61}

(* const step = 0.5 *)
Step == 30

(* interval = 1.0 when the duration is unknown *)
DefaultInterval == 60

null == "null"

NoVideoMessage == "No video input detected. Please upload a video first."

(* playerIds = mode === 'single' ? ['main'] : ['front', 'side'] *)
PlayerIdsOf(mode) == IF mode = "single" THEN <<"main">> ELSE <<"front", "side">>

(* id === 'main' ? 'Main View' : (id === 'front' ? 'Front View' : 'Side View') *)
ViewLabel(id) == IF id = "main" THEN "Main View"
                 ELSE IF id = "front" THEN "Front View" ELSE "Side View"

Ids == PlayerIdsOf(app.viewMode)

CurrentId == Ids[hga.idx]

(* A loop test that lets the instant equal to the duration through. *)
AtMost(t, duration) == duration # NaN /\ t <= duration

(* t < duration of JavaScript: false against NaN *)
Less(t, duration) == duration # NaN /\ t < duration

(* video.duration > 0 && !isNaN(video.duration) && video.duration !== Infinity *)
DurationKnown(v) == v.duration # NaN /\ v.duration > 0

EmptyPeaks == [id \in {} |-> 0]

(* peakTimes[id]: undefined when findPeak was not run for the view *)
PeakTimeOf(id) == IF id \in DOMAIN hga.peakTimes THEN hga.peakTimes[id] ELSE undefined

InitApp ==
    /\ \E mode \in {"single", "dual"} : \E cw \in CaptureWindows :
       \E smart \in BOOLEAN : \E previous \in BOOLEAN :
          app = [viewMode |-> mode, captureWindow |-> cw, smartSearch |-> smart,
                 status |-> IF previous THEN "COMPLETE" ELSE "IDLE",
                 errorMessage |-> null,
                 analysisResult |-> IF previous THEN "previous" ELSE null]
    /\ video \in [PlayerIds ->
                    {NoVideo} \cup {LoadedVideo(NaN, 0)}
                      \cup {LoadedVideo(d, t) : d \in AppDurations, t \in AppStartTimes}]
    /\ \A id \in PlayerIds :
          (\A i \in 1..Len(Ids) : Ids[i] # id) => video[id] = NoVideo
    /\ hga = IdleHga
    /\ cmf = IdleCmf
    /\ fpm = IdleFpm
    /\ svc = IdleSvc
    /\ oracleCalls = <<>>
    /\ samplerCalls = <<>>
    /\ mv = IdleMv
    /\ env = [ctxFailures |-> 0]
    /\ geo = IdleGeo

(* setStatus(ANALYZING); setErrorMessage(null); setAnalysisResult(null);   *)
(* const peakTimes = {}                                                    *)
HGA_Start ==
    /\ hga.pc = "idle"
    /\ app.viewMode \in {"single", "dual"}
    /\ app' = [app EXCEPT !.status = "ANALYZING", !.errorMessage = null,
                          !.analysisResult = null]
    /\ hga' = [pc |-> IF app.smartSearch THEN "peak" ELSE "capture",
               idx |-> 1, peakTimes |-> EmptyPeaks, peakFound |-> {},
               views |-> <<>>, captures |-> <<>>, frameLog |-> <<>>]
    /\ UNCHANGED <<video, cmf, fpm, svc, oracleCalls, samplerCalls, mv, env, geo>>

(* The end of an iteration of the smart-search loop; after the last one    *)
(* the 500 ms delay and the capture loop.                                  *)
NextPeak(h) == IF h.idx + 1 > Len(Ids)
               THEN [h EXCEPT !.pc = "capture", !.idx = 1]
               ELSE [h EXCEPT !.pc = "peak", !.idx = @ + 1]

(* findPeak of the handle up to the call of findPeakMoment, and the        *)
(* locals of findPeakMoment; sought keeps the instants the loop has sought *)
(* and scans what detectPoseFrame gave at each instant.                    *)
EnterFpm(id) ==
    [pc |-> "scan", vid |-> id,
     originalTime |-> video[id].currentTime,
     entryTime |-> video[id].currentTime,
     duration |-> video[id].duration,
     t |-> 0, bestTime |-> 0, maxScore |-> 0 - 1,
     sought |-> <<>>, scans |-> <<>>,
     normal |-> TRUE, result |-> undefined]

(* const peak = await player.findPeak(): without a video it returns 0 *)
HGA_FindPeak ==
    /\ hga.pc = "peak"
    /\ IF ~video[CurrentId].has
       THEN /\ hga' = NextPeak([hga EXCEPT !.peakTimes =
                          [id \in DOMAIN hga.peakTimes \cup {CurrentId} |->
                              IF id = CurrentId THEN 0 ELSE hga.peakTimes[id]]])
            /\ UNCHANGED fpm
       ELSE /\ fpm' = EnterFpm(CurrentId)
            /\ hga' = [hga EXCEPT !.pc = "peak_wait"]
    /\ UNCHANGED <<video, app, cmf, svc, oracleCalls, samplerCalls, mv, env, geo>>

(* for (let t = 0; t < duration; t += step) { videoElement.currentTime = t *)
FPM_SeekNext ==
    /\ fpm.pc = "scan"
    /\ Less(fpm.t, fpm.duration)
    /\ video' = [video EXCEPT ![fpm.vid] = SetCurrentTime(@, fpm.t)]
    /\ fpm' = [fpm EXCEPT !.pc = "wait", !.sought = Append(@, fpm.t)]
    /\ UNCHANGED <<app, hga, cmf, svc, oracleCalls, samplerCalls, mv, env, geo>>

(* The score of an instant without a pose, in scans *)
NoPose == 0 - 1

(* A comparison that lets a later instant with an equal score replace the  *)
(* best.                                                                   *)
IsBetterOrEqual(score, maxScore) == score >= maxScore

(* if (score > maxScore) *)
IsBetter(score, maxScore) == score > maxScore

(* pose && pose.worldLandmarks: score it, keep the best *)
FPM_DetectPose ==
    /\ fpm.pc = "detect"
    /\ \E init \in InitImageOutcomes : \E score \in PoseScores :
          /\ "pose" \in DetectPoseFrameOutcomes(init)
          /\ svc' = [svc EXCEPT !.imageInit = init]
          /\ fpm' = [fpm EXCEPT !.pc = "scan", !.t = @ + Step,
                       !.scans = Append(@, [t |-> fpm.t, score |-> score]),
                       !.maxScore = IF IsBetter(score, fpm.maxScore) THEN score ELSE @,
                       !.bestTime = IF IsBetter(score, fpm.maxScore) THEN fpm.t ELSE @]
    /\ UNCHANGED <<video, app, hga, cmf, oracleCalls, samplerCalls, mv, env, geo>>

(* no pose at this instant *)
FPM_DetectNone ==
    /\ fpm.pc = "detect"
    /\ \E init \in InitImageOutcomes :
          /\ "none" \in DetectPoseFrameOutcomes(init)
          /\ svc' = [svc EXCEPT !.imageInit = init]
          /\ fpm' = [fpm EXCEPT !.pc = "scan", !.t = @ + Step,
                       !.scans = Append(@, [t |-> fpm.t, score |-> NoPose])]
    /\ UNCHANGED <<video, app, hga, cmf, oracleCalls, samplerCalls, mv, env, geo>>

(* detectPoseFrame rejects: the catch of findPeak seeks back to            *)
(* originalTime and returns it                                             *)
FPM_DetectReject ==
    /\ fpm.pc = "detect"
    /\ \E init \in InitImageOutcomes :
          /\ "reject" \in DetectPoseFrameOutcomes(init)
          /\ svc' = [svc EXCEPT !.imageInit = init]
    /\ video' = [video EXCEPT ![fpm.vid] = SetCurrentTime(@, fpm.originalTime)]
    /\ fpm' = [fpm EXCEPT !.pc = "returned", !.normal = FALSE,
                 !.result = fpm.originalTime]
    /\ UNCHANGED <<app, hga, cmf, oracleCalls, samplerCalls, mv, env, geo>>

(* return { bestTime, score: maxScore }; findPeak returns bestTime and     *)
(* does not seek                                                           *)
FPM_Return ==
    /\ fpm.pc = "scan"
    /\ ~Less(fpm.t, fpm.duration)
    /\ fpm' = [fpm EXCEPT !.pc = "returned", !.result = fpm.bestTime]
    /\ UNCHANGED <<video, app, hga, cmf, svc, oracleCalls, samplerCalls, mv, env, geo>>

(* peakTimes[id] = peak *)
HGA_PeakReturned ==
    /\ hga.pc = "peak_wait"
    /\ fpm.pc = "returned"
    /\ hga' = NextPeak([hga EXCEPT
                  !.peakTimes =
                      [id \in DOMAIN hga.peakTimes \cup {fpm.vid} |->
                          IF id = fpm.vid THEN fpm.result ELSE hga.peakTimes[id]],
                  !.peakFound =
                      IF fpm.normal /\ fpm.maxScore >= 0 THEN @ \cup {fpm.vid}
                      ELSE @])
    /\ fpm' = IdleFpm
    /\ UNCHANGED <<video, app, cmf, svc, oracleCalls, samplerCalls, mv, env, geo>>

----------------------------------------------------------------------------
(* handleGlobalAnalyze: the capture loop *)

(* The end of an iteration of the capture loop *)
NextCapture(h) == IF h.idx + 1 > Len(Ids)
                  THEN [h EXCEPT !.pc = "assemble"]
                  ELSE [h EXCEPT !.pc = "capture", !.idx = @ + 1]

(* A push that puts the newest view first. *)
PushViewFront(h, view) == [h EXCEPT !.views = <<view>> \o @,
                                    !.captures = Append(@, "data")]

(* if (data) views.push({ label, frames, poseData }) *)
PushView(h, view) == [h EXCEPT !.views = Append(@, view),
                               !.captures = Append(@, "data")]

(* data === null: nothing is pushed *)
PushNull(h) == [h EXCEPT !.captures = Append(@, "null")]

(* catch (error): setStatus(ERROR); setErrorMessage(error.message || ...) *)
Fail(message) == [app EXCEPT !.status = "ERROR", !.errorMessage = message]

(* formatTelemetryForPrompt of the pose detected on the frame shown at t *)
FormatTelemetry(id, t) == <<"--- LIVE BIOMECHANICS TELEMETRY ---", id, t>>

(* captureFrame after its pose detection: latestTelemetryRef is written    *)
(* only with a pose; captureVideoFrame returns null without a 2D context.  *)
(* frameLog keeps, for every completed captureFrame, what detectPoseFrame  *)
(* returned, the frame the source displayed and the telemetry returned.    *)
FrameFinish(id, v1, init) ==
    /\ svc' = [svc EXCEPT !.imageInit = init]
    /\ \/ /\ "reject" \in DetectPoseFrameOutcomes(init)
          /\ video' = [video EXCEPT ![id] = v1]
          /\ app' = Fail("Pose model failed to load")
          /\ hga' = [hga EXCEPT !.pc = "done"]
          /\ UNCHANGED env
       \/ \E outcome \in DetectPoseFrameOutcomes(init) \ {"reject"} :
          \E ctxOK \in BOOLEAN :
             LET tele == IF outcome = "pose" THEN FormatTelemetry(id, v1.shown)
                         ELSE v1.latestTelemetry
                 logged == [hga EXCEPT !.frameLog = Append(@,
                              [id |-> id, outcome |-> outcome, rendered |-> ctxOK,
                               shown |-> v1.shown, seeking |-> v1.seeking,
                               peakTime |-> PeakTimeOf(id),
                               peakFound |-> id \in hga.peakFound,
                               telemetry |-> tele])]
             IN  /\ video' = [video EXCEPT ![id] = [v1 EXCEPT !.latestTelemetry = tele]]
                 /\ UNCHANGED app
                 /\ IF ctxOK
                    THEN /\ hga' = NextCapture(PushView(logged,
                                    [label |-> ViewLabel(id),
                                     frames |-> <<ToDataURL(id, v1.shown)>>,
                                     poseData |-> [kind |-> "string", value |-> tele]]))
                         /\ UNCHANGED env
                    ELSE /\ env.ctxFailures < MaxCtxFailures
                         /\ env' = [env EXCEPT !.ctxFailures = @ + 1]
                         /\ hga' = NextCapture(PushNull(logged))

(* captureWindow === 1: if (peakTime !== undefined) video.currentTime =    *)
(* peakTime, not awaited; then captureFrame.  With the image-mode model    *)
(* loaded or failed, captureFrame completes within the same task.          *)
HGA_CaptureSingle ==
    /\ hga.pc = "capture"
    /\ app.captureWindow = 1
    /\ LET id == CurrentId
           peakTime == PeakTimeOf(id)
           v1 == IF peakTime # undefined THEN SetCurrentTime(video[id], peakTime)
                 ELSE video[id]
       IN  IF ~video[id].has
           THEN /\ hga' = NextCapture(PushNull(hga))
                /\ UNCHANGED <<video, app, svc, env>>
           ELSE IF svc.imageInit = "unset"
           THEN /\ video' = [video EXCEPT ![id] = v1]
                /\ hga' = [hga EXCEPT !.pc = "frame_init"]
                /\ UNCHANGED <<app, svc, env>>
           ELSE FrameFinish(id, v1, svc.imageInit)
    /\ UNCHANGED <<cmf, fpm, oracleCalls, samplerCalls, mv, geo>>

(* captureFrame resumes once initializeImageMode has settled *)
HGA_FrameInit ==
    /\ hga.pc = "frame_init"
    /\ \E init \in InitImageOutcomes : FrameFinish(CurrentId, video[CurrentId], init)
    /\ UNCHANGED <<cmf, fpm, oracleCalls, samplerCalls, mv, geo>>

(* A default interval the capture does not derive from the source. *)
CaptureIntervalFixed(v, cw) == Step

(* interval = video.duration / effectiveCaptureWindow, or 1.0 *)
CaptureInterval(v, cw) == IF DurationKnown(v) THEN v.duration \div cw
                          ELSE DefaultInterval

(* A capture centred on the peak whenever one is known. *)
CaptureCenterOnPeak(v, peakTime) ==
    IF peakTime # undefined THEN peakTime
    ELSE IF DurationKnown(v) THEN v.duration \div 2 ELSE undefined

(* centerTime = video.duration / 2, or undefined; peakTime is not used *)
CaptureCenter(v, peakTime) == IF DurationKnown(v) THEN v.duration \div 2
                              ELSE undefined

(* const referenceTime = startTimeOverride ?? videoRef.current.currentTime *)
ReferenceTime(v, startTimeOverride) ==
    IF startTimeOverride # undefined THEN startTimeOverride ELSE v.currentTime

(* captureWindow !== 1: player.captureMultiFrames(effectiveCaptureWindow,  *)
(* interval, centerTime), which returns null without a video and else      *)
(* calls captureMultipleFrames with onFrameDraw.                           *)
HGA_CaptureMulti ==
    /\ hga.pc = "capture"
    /\ app.captureWindow # 1
    /\ LET id == CurrentId
           v == video[id]
           interval == CaptureInterval(v, app.captureWindow)
           centerTime == CaptureCenter(v, PeakTimeOf(id))
           referenceTime == ReferenceTime(v, centerTime)
       IN  IF ~v.has
           THEN /\ hga' = NextCapture(PushNull(hga))
                /\ UNCHANGED <<cmf, samplerCalls>>
           ELSE /\ cmf' = EnterCmf("handle", id, referenceTime,
                                   app.captureWindow, interval, TRUE)
                /\ samplerCalls' = Append(samplerCalls,
                      [id |-> id, centerTime |-> referenceTime,
                       frameCount |-> app.captureWindow,
                       intervalSeconds |-> interval,
                       peakTime |-> PeakTimeOf(id),
                       peakFound |-> id \in hga.peakFound,
                       smartSearch |-> app.smartSearch,
                       duration |-> v.duration,
                       currentTime |-> v.currentTime])
                /\ hga' = [hga EXCEPT !.pc = "multi_wait"]
    /\ UNCHANGED <<video, app, fpm, svc, oracleCalls, mv, env, geo>>

(* catch (e) of captureMultiFrames: return null *)
HGA_MultiFailed ==
    /\ hga.pc = "multi_wait"
    /\ cmf.pc = "thrown"
    /\ hga' = NextCapture(PushNull(hga))
    /\ cmf' = IdleCmf
    /\ UNCHANGED <<video, app, fpm, svc, oracleCalls, samplerCalls, mv, env, geo>>

InitVideoOutcomes == IF svc.videoInit = "unset" THEN {"ready", "failed"}
                     ELSE {svc.videoInit}

(* detectPoseFromVideo(videoRef.current, referenceTime * 1000) once the    *)
(* video-mode model has settled, and the return of captureMultiFrames.     *)
(* videoCalls keeps every call of the video-mode landmarker with the       *)
(* number of slots the capture loop has sought on the source before it.    *)
CenterFinish(init) ==
    /\ cmf' = IdleCmf
    /\ IF init = "failed"
       THEN /\ svc' = [svc EXCEPT !.videoInit = init]
            /\ hga' = NextCapture(PushNull(hga))
       ELSE /\ svc' = [svc EXCEPT !.videoInit = init,
                         !.videoCalls = Append(@,
                            [vid |-> cmf.vid, timestamp |-> cmf.centerTime * 1000,
                             shown |-> video[cmf.vid].shown,
                             sampled |-> Len(cmf.frameTimes)])]
            /\ \E centerPose \in {"PoseData", "undefined"} :
                  hga' = NextCapture(PushView(hga,
                            [label |-> ViewLabel(cmf.vid),
                             frames |-> cmf.result.frames,
                             poseData |-> [kind |-> centerPose, value |-> <<>>]]))

(* captureMultipleFrames has returned to captureMultiFrames *)
HGA_MultiReturned ==
    /\ hga.pc = "multi_wait"
    /\ cmf.pc = "returned"
    /\ IF svc.videoInit = "unset"
       THEN /\ hga' = [hga EXCEPT !.pc = "center_init"]
            /\ UNCHANGED <<cmf, svc>>
       ELSE CenterFinish(svc.videoInit)
    /\ UNCHANGED <<video, app, fpm, oracleCalls, samplerCalls, mv, env, geo>>

(* detectPoseFromVideo resumes once initializeVideoMode has settled *)
HGA_CenterInit ==
    /\ hga.pc = "center_init"
    /\ \E init \in InitVideoOutcomes : CenterFinish(init)
    /\ UNCHANGED <<video, app, fpm, oracleCalls, samplerCalls, mv, env, geo>>

----------------------------------------------------------------------------
(* handleGlobalAnalyze: the oracle call *)

(* A check that lets an empty list of views through. *)
HasNoViewsNever(views) == Len(views) < 0

(* views.length === 0 *)
HasNoViews(views) == Len(views) = 0

(* combinedContext: view.telemetry is never set by handleGlobalAnalyze; a  *)
(* truthy poseData goes to analyzePoseGeometry, which reads                *)
(* pose.landmarks[11] and throws on the telemetry string of captureFrame.  *)
ContextThrows(views) ==
    \E i \in 1..Len(views) :
        views[i].poseData.kind = "string" /\ views[i].poseData.value # <<>>

(* throw new Error("No video input detected. Please upload a video first.") *)
HGA_NoInput ==
    /\ hga.pc = "assemble"
    /\ HasNoViews(hga.views)
    /\ app' = Fail(NoVideoMessage)
    /\ hga' = [hga EXCEPT !.pc = "done"]
    /\ UNCHANGED <<video, cmf, fpm, svc, oracleCalls, samplerCalls, mv, env, geo>>

(* analyzeMultiViewMovement({ views, userDeclaredSkill }) up to            *)
(* callGeminiApi                                                           *)
HGA_OracleCall ==
    /\ hga.pc = "assemble"
    /\ ~HasNoViews(hga.views)
    /\ IF ContextThrows(hga.views)
       THEN /\ app' = Fail("Cannot read properties of undefined")
            /\ hga' = [hga EXCEPT !.pc = "done"]
            /\ UNCHANGED oracleCalls
       ELSE /\ oracleCalls' = Append(oracleCalls,
                                BuildMultiViewRequest([views |-> hga.views]))
            /\ hga' = [hga EXCEPT !.pc = "oracle_wait"]
            /\ UNCHANGED app
    /\ UNCHANGED <<video, cmf, fpm, svc, samplerCalls, mv, env, geo>>

(* setAnalysisResult(result); setStatus(COMPLETE) *)
HGA_OracleResolve ==
    /\ hga.pc = "oracle_wait"
    /\ app' = [app EXCEPT !.status = "COMPLETE", !.analysisResult = "result"]
    /\ hga' = [hga EXCEPT !.pc = "done"]
    /\ UNCHANGED <<video, cmf, fpm, svc, oracleCalls, samplerCalls, mv, env, geo>>

(* the oracle call fails: catch (error) *)
HGA_OracleReject ==
    /\ hga.pc = "oracle_wait"
    /\ app' = Fail("Analysis failed.")
    /\ hga' = [hga EXCEPT !.pc = "done"]
    /\ UNCHANGED <<video, cmf, fpm, svc, oracleCalls, samplerCalls, mv, env, geo>>

Next ==
    \/ HGA_Start
    \/ HGA_FindPeak
    \/ FPM_SeekNext
    \/ FPM_DetectPose
    \/ FPM_DetectNone
    \/ FPM_DetectReject
    \/ FPM_Return
    \/ HGA_PeakReturned
    \/ HGA_CaptureSingle
    \/ HGA_FrameInit
    \/ HGA_CaptureMulti
    \/ CMF_SeekNext
    \/ Seeked
    \/ CMF_RenderSkip
    \/ CMF_RenderFrame
    \/ CMF_Restore
    \/ HGA_MultiFailed
    \/ HGA_MultiReturned
    \/ HGA_CenterInit
    \/ HGA_NoInput
    \/ HGA_OracleCall
    \/ HGA_OracleResolve
    \/ HGA_OracleReject

Spec == InitApp /\ [][Next]_vars

----------------------------------------------------------------------------
(* Stand-alone calls of findPeak on one loaded source *)

(* Sources of 0.75 s, 1 s and 1.25 s *)
PeakDurations == {45, 60, 75}

InitPeak ==
    /\ \E d \in PeakDurations : \E t \in AppStartTimes :
          video = [id \in PlayerIds |->
                      IF id = "main" THEN LoadedVideo(d, t) ELSE NoVideo]
    /\ app = IdleApp
    /\ hga = IdleHga
    /\ cmf = IdleCmf
    /\ fpm = IdleFpm
    /\ svc = IdleSvc
    /\ oracleCalls = <<>>
    /\ samplerCalls = <<>>
    /\ mv = IdleMv
    /\ env = [ctxFailures |-> 0]
    /\ geo = IdleGeo

(* player.findPeak() *)
PeakCall ==
    /\ fpm.pc = "idle"
    /\ fpm' = EnterFpm("main")
    /\ UNCHANGED <<video, app, hga, cmf, svc, oracleCalls, samplerCalls, mv, env, geo>>

FPM_Step ==
    \/ FPM_SeekNext
    \/ FPM_DetectPose
    \/ FPM_DetectNone
    \/ FPM_DetectReject
    \/ FPM_Return

NextPeakScan ==
    \/ PeakCall
    \/ FPM_SeekNext
    \/ Seeked
    \/ FPM_DetectPose
    \/ FPM_DetectNone
    \/ FPM_DetectReject
    \/ FPM_Return

(* The scan runs in microtasks of the page, which are always run; every    *)
(* requested seek completes.                                               *)
SpecPeak ==
    InitPeak /\ [][NextPeakScan]_vars /\ WF_vars(FPM_Step) /\ WF_vars(Seeked)

----------------------------------------------------------------------------
(* Claims about findPeakMoment, checked under SpecPeak *)

PeakReturned == fpm.pc = "returned" /\ fpm.normal

(* The positions of scans at which a pose was detected *)
Posed == {i \in 1..Len(fpm.scans) : fpm.scans[i].score # NoPose}

(* C28: findPeakMoment returns the earliest scanned instant whose score is *)
(* maximal among the instants with a pose, and that score; without a pose  *)
(* at any scanned instant it returns bestTime 0 and score -1.              *)
ThmC28_EarliestMaximum ==
    PeakReturned =>
        /\ fpm.result = fpm.bestTime
        /\ IF Posed = {}
           THEN fpm.bestTime = 0 /\ fpm.maxScore = 0 - 1
           ELSE \E i \in Posed :
                   /\ fpm.scans[i].t = fpm.bestTime
                   /\ fpm.scans[i].score = fpm.maxScore
                   /\ \A j \in Posed :
                         /\ fpm.scans[j].score <= fpm.maxScore
                         /\ fpm.scans[j].score = fpm.maxScore => i <= j

WitC28_TieKeepsEarlier ==
    /\ PeakReturned
    /\ Len(fpm.scans) = 3
    /\ fpm.scans[1].score = 0
    /\ fpm.scans[2].score = 61
    /\ fpm.scans[3].score = 61
    /\ fpm.bestTime = 30
    /\ fpm.maxScore = 61

(* The instants 0, 0.5, 1.0, ... strictly below duration *)
ExpectedInstants(duration) ==
    [i \in 1..((duration + Step - 1) \div Step) |-> (i - 1) * Step]

ScannedInstants == [i \in 1..Len(fpm.scans) |-> fpm.scans[i].t]

----------------------------------------------------------------------------
(* One player that the user scrubs before a single-frame analysis *)

(* The positions the scrubber is dragged to: 0 and 0.5 s. *)
ScrubTimes == {0, 30}

InitFrame ==
    /\ \E previous \in BOOLEAN :
          app = [viewMode |-> "single", captureWindow |-> 1, smartSearch |-> FALSE,
                 status |-> IF previous THEN "COMPLETE" ELSE "IDLE",
                 errorMessage |-> null,
                 analysisResult |-> IF previous THEN "previous" ELSE null]
    /\ \E d \in AppDurations : \E t \in AppStartTimes :
          video = [id \in PlayerIds |->
                     IF id = "main" THEN LoadedVideo(d, t) ELSE NoVideo]
    /\ hga = IdleHga
    /\ cmf = IdleCmf
    /\ fpm = IdleFpm
    /\ svc = IdleSvc
    /\ oracleCalls = <<>>
    /\ samplerCalls = <<>>
    /\ mv = IdleMv
    /\ env = [ctxFailures |-> 0]
    /\ geo = IdleGeo

(* The range input: videoRef.current.currentTime = Number(e.target.value), *)
(* while no analysis is running.                                           *)
Scrub ==
    /\ hga.pc = "idle"
    /\ \E id \in PlayerIds : \E t \in ScrubTimes :
          /\ video[id].has
          /\ video' = [video EXCEPT ![id] = SetCurrentTime(@, t)]
    /\ UNCHANGED <<app, hga, cmf, fpm, svc, oracleCalls, samplerCalls, mv, env, geo>>

(* handleTimeUpdate of a paused player (the render loop does the same      *)
(* while playing): detectPoseFrame on the displayed frame and, with a pose *)
(* and a 2D context, latestTelemetryRef.current = formatTelemetryForPrompt. *)
(* Without a pose the ref keeps its value.                                 *)
HandleTimeUpdate ==
    /\ \E id \in PlayerIds : \E init \in InitImageOutcomes :
       \E outcome \in DetectPoseFrameOutcomes(init) : \E ctxOK \in BOOLEAN :
          /\ video[id].has
          /\ svc' = [svc EXCEPT !.imageInit = init]
          /\ video' = IF outcome = "pose" /\ ctxOK
                      THEN [video EXCEPT ![id].latestTelemetry =
                                            FormatTelemetry(id, video[id].shown)]
                      ELSE video
    /\ UNCHANGED <<app, hga, cmf, fpm, oracleCalls, samplerCalls, mv, env, geo>>

NextFrame ==
    \/ Scrub
    \/ Seeked
    \/ HandleTimeUpdate
    \/ HGA_Start
    \/ HGA_CaptureSingle
    \/ HGA_FrameInit
    \/ HGA_NoInput
    \/ HGA_OracleCall
    \/ HGA_OracleResolve
    \/ HGA_OracleReject

SpecFrame == InitFrame /\ [][NextFrame]_vars

(* C16: when captureFrame runs on a frame on which no pose is detected,    *)
(* the telemetry it returns is empty, whatever telemetry earlier frames    *)
(* (live render loop, scrubbing, earlier captures) produced.               *)
CexC16_NoPoseEmptyTelemetry ==
    hga.pc # "idle" =>
        \A i \in 1..Len(hga.frameLog) :
            (hga.frameLog[i].outcome = "none" /\ hga.frameLog[i].rendered)
                => hga.frameLog[i].telemetry = <<>>

----------------------------------------------------------------------------
(* Claims about findPeak and handleGlobalAnalyze, checked under Spec *)

(* C4: after findPeak returns normally on a source of positive duration,   *)
(* the source's currentTime equals the value it had immediately before     *)
(* the call.                                                               *)
CexC4_FindPeakRestoresTime ==
    (fpm.pc = "returned" /\ fpm.normal /\ Less(0, fpm.duration))
        => video[fpm.vid].currentTime = fpm.entryTime

(* C8: analyzeMultiViewMovement is never called with a payload whose       *)
(* total number of frames over all views is zero.                          *)
CexC8_NoEmptyPayloadSent ==
    \A i \in 1..Len(oracleCalls) : Len(oracleCalls[i].images) > 0

(* Every capture of the finished run returned null. *)
NoViewYieldedCapture ==
    /\ hga.pc = "done"
    /\ Len(hga.captures) = Len(Ids)
    /\ \A i \in 1..Len(hga.captures) : hga.captures[i] = "null"

(* C9: when no view yields a capture, handleGlobalAnalyze ends in status   *)
(* ERROR with the message 'No video input detected. Please upload a video  *)
(* first.', the oracle is not called and analysisResult stays null.        *)
ThmC9_NoInputFails ==
    NoViewYieldedCapture
        => /\ app.status = "ERROR"
           /\ app.errorMessage
                = "No video input detected. Please upload a video first."
           /\ oracleCalls = <<>>
           /\ app.analysisResult = null

WitC9_NoPlayerHasVideo ==
    /\ NoViewYieldedCapture
    /\ app.viewMode = "dual"
    /\ \A id \in PlayerIds : ~video[id].has
    /\ app.status = "ERROR"
    /\ oracleCalls = <<>>

ViewPosition(label) ==
    CHOOSE i \in 1..Len(Ids) : ViewLabel(Ids[i]) = label

(* The payload of a frame data URL: the source it was drawn from and the   *)
(* time of the frame the source displayed.                                 *)
FramePayload(frame) == frame[3]

(* C11: the views handed to analyzeMultiViewMovement appear in the         *)
(* caller's order (main, or front then side); the flat image list is the   *)
(* concatenation of the views' frame lists in that order; inside each view *)
(* the frames are of that view's source and in ascending time order.       *)
ThmC11_ViewAndFrameOrder ==
    \A c \in 1..Len(oracleCalls) :
        LET views == hga.views
            images == oracleCalls[c].images
        IN  /\ \A v \in 1..(Len(views) - 1) :
                  ViewPosition(views[v].label) < ViewPosition(views[v + 1].label)
            /\ Len(images) = CountBefore(views, Len(views) + 1)
            /\ \A v \in 1..Len(views) : \A j \in 1..Len(views[v].frames) :
                  /\ images[CountBefore(views, v) + j].data
                        = <<FramePayload(views[v].frames[j])>>
                  /\ FramePayload(views[v].frames[j])[1]
                        = Ids[ViewPosition(views[v].label)]
                  /\ j > 1 => FramePayload(views[v].frames[j - 1])[2]
                                 < FramePayload(views[v].frames[j])[2]

WitC11_FrontThenSide ==
    /\ Len(oracleCalls) = 1
    /\ app.viewMode = "dual"
    /\ Len(hga.views) = 2
    /\ hga.views[1].label = "Front View"
    /\ hga.views[2].label = "Side View"
    /\ Len(hga.views[1].frames) = 3
    /\ Len(oracleCalls[1].images) = 6
    /\ oracleCalls[1].images[3].data = << <<"front", 50>> >>
    /\ oracleCalls[1].images[4].data = << <<"side", 10>> >>

(* C12: when captureWindow is 1 and a peak time was found, the single      *)
(* frame is rendered only after the seek to the peak time has completed:   *)
(* the frame drawn is the one of the peak instant, not the one the source  *)
(* displayed before the seek.                                              *)
CexC12_FrameShowsPeak ==
    hga.pc # "idle" =>
        \A i \in 1..Len(hga.frameLog) :
            LET e == hga.frameLog[i]
            IN  (app.captureWindow = 1 /\ e.peakFound /\ e.rendered)
                  => e.shown = e.peakTime

(* C17: every pose detection of a seek-based capture workflow uses the     *)
(* image-mode detector: the video-mode detector is never invoked on a      *)
(* source whose position the sampling seeks of the capture have moved.     *)
CexC17_NoVideoModeAfterSeeks ==
    \A i \in 1..Len(svc.videoCalls) : svc.videoCalls[i].sampled = 0

(* C24: the centerPose of captureMultiFrames is detected while the source  *)
(* displays the frame of the reference time: every call of the video-mode  *)
(* landmarker is made on the frame of the time its timestamp names.        *)
CexC24_CenterPoseAtReference ==
    \A i \in 1..Len(svc.videoCalls) :
        svc.videoCalls[i].shown * 1000 = svc.videoCalls[i].timestamp

(* C25: with captureWindow 1, a run in which captureFrame returned a       *)
(* non-empty telemetry string for a view sends its request to the oracle   *)
(* and does not end in ERROR over the way the telemetry is attached.       *)
CexC25_TelemetryRequestSent ==
    (hga.pc = "done" /\ app.captureWindow = 1
        /\ \E i \in 1..Len(hga.views) :
              /\ hga.views[i].poseData.kind = "string"
              /\ hga.views[i].poseData.value # <<>>)
        => /\ Len(oracleCalls) = 1
           /\ app.errorMessage # "Cannot read properties of undefined"

(* C26: every call of detectPoseFromVideo carries a timestamp strictly     *)
(* greater than the timestamp of the call before it.                       *)
CexC26_VideoTimestampsIncrease ==
    \A i \in 2..Len(svc.videoCalls) :
        svc.videoCalls[i - 1].timestamp < svc.videoCalls[i].timestamp

----------------------------------------------------------------------------
(* The angle functions of biomechanics.ts and of PoseDetectionService.     *)
(* Landmarks lie on an integer grid; angles count 1/1000 degree.           *)

MaxMissing == 2

(* The coordinates of the points handed to calculateAngle *)
Coords == 0..2

Points == [x : Coords, y : Coords]

(* The landmarks the joint tables read: shoulders 11/12, elbows 13/14,     *)
(* wrists 15/16, index fingers 19/20, hips 23/24, knees 25/26, ankles      *)
(* 27/28, foot indices 31/32.                                              *)
LandmarkIds == {11, 12, 13, 14, 15, 16, 19, 20, 23, 24, 25, 26, 27, 28, 31, 32}

(* atan(y / x) for y >= 0 and x > 0 with offsets of at most 3 *)
BaseAngle(y, x) ==
    IF y = 0 THEN 0
    ELSE IF y = x THEN 45000
    ELSE IF 2 * y = x THEN 26565
    ELSE IF y = 2 * x THEN 63435
    ELSE IF 3 * y = x THEN 18435
    ELSE IF y = 3 * x THEN 71565
    ELSE IF 3 * y = 2 * x THEN 33690
    ELSE 56310

(* Math.atan2(y, x) * 180 / Math.PI: a value in (-180, 180], 0 for (0, 0) *)
Atan2(y, x) ==
    IF x > 0 THEN (IF y >= 0 THEN BaseAngle(y, x) ELSE 0 - BaseAngle(0 - y, x))
    ELSE IF x < 0 THEN (IF y >= 0 THEN 180000 - BaseAngle(y, 0 - x)
                        ELSE BaseAngle(0 - y, 0 - x) - 180000)
    ELSE IF y > 0 THEN 90000
    ELSE IF y < 0 THEN 0 - 90000
    ELSE 0

(* The angle without the reflection of values above 180. *)
CalculateAngleNoReflex(a, b, c) ==
    Abs(Atan2(c.y - b.y, c.x - b.x) - Atan2(a.y - b.y, a.x - b.x))

(* calculateAngle of biomechanics.ts *)
CalculateAngle(a, b, c) ==
    LET radians == Atan2(c.y - b.y, c.x - b.x) - Atan2(a.y - b.y, a.x - b.x)
        angle == Abs(radians)
    IN  IF angle > 180000 THEN 360000 - angle ELSE angle

(* PoseDetectionService.calculateAngle *)
ServiceCalculateAngle(a, b, c) ==
    LET radians == Atan2(c.y - b.y, c.x - b.x) - Atan2(a.y - b.y, a.x - b.x)
        angle == Abs(radians)
    IN  IF angle > 180000 THEN 360000 - angle ELSE angle

(* Math.round of an angle, in whole degrees *)
MathRound(angle) == (angle + 500) \div 1000

(* exists(l): l !== undefined && l !== null *)
Exists(landmarks, i) == i \in landmarks.present

(* A check of the vertex landmark alone. *)
VertexExists(landmarks, a, b, c) == Exists(landmarks, b)

(* exists(landmarks[a]) && exists(landmarks[b]) && exists(landmarks[c]) *)
AllExist(landmarks, a, b, c) ==
    Exists(landmarks, a) /\ Exists(landmarks, b) /\ Exists(landmarks, c)

(* calculateAllJointAngles: twelve guarded pushes in a fixed order *)
CalculateAllJointAngles(landmarks) ==
    LET Entry(joint, a, b, c) ==
            IF AllExist(landmarks, a, b, c)
            THEN <<[joint |-> joint,
                    angle |-> MathRound(CalculateAngle(landmarks.at[a],
                                 landmarks.at[b], landmarks.at[c]))]>>
            ELSE <<>>
    IN  Entry("Left Shoulder", 23, 11, 13) \o Entry("Right Shoulder", 24, 12, 14)
        \o Entry("Left Elbow", 11, 13, 15) \o Entry("Right Elbow", 12, 14, 16)
        \o Entry("Left Wrist", 13, 15, 19) \o Entry("Right Wrist", 14, 16, 20)
        \o Entry("Left Hip", 11, 23, 25) \o Entry("Right Hip", 12, 24, 26)
        \o Entry("Left Knee", 23, 25, 27) \o Entry("Right Knee", 24, 26, 28)
        \o Entry("Left Ankle", 25, 27, 31) \o Entry("Right Ankle", 26, 28, 32)

(* jointPositions of drawAnglesOnCanvas: the landmark a label is drawn at *)
JointPosition(joint) ==
    CASE joint = "Left Shoulder" -> 11 [] joint = "Right Shoulder" -> 12
      [] joint = "Left Elbow" -> 13 [] joint = "Right Elbow" -> 14
      [] joint = "Left Wrist" -> 15 [] joint = "Right Wrist" -> 16
      [] joint = "Left Hip" -> 23 [] joint = "Right Hip" -> 24
      [] joint = "Left Knee" -> 25 [] joint = "Right Knee" -> 26
      [] joint = "Left Ankle" -> 27 [] joint = "Right Ankle" -> 28

(* drawAnglesOnCanvas: for every entry whose label position exists, the    *)
(* text Math.round(angle) next to the joint                                *)
DrawAnglesOnCanvas(landmarks, angles) ==
    SelectSeq(angles, LAMBDA e : Exists(landmarks, JointPosition(e.joint)))

(* The landmarks PoseDetectionService.calculateJointAngles dereferences *)
ServiceLandmarkIds == {11, 12, 13, 14, 15, 16, 23, 24, 25, 26, 27, 28}

(* PoseDetectionService.calculateJointAngles: six pushes; no angle of      *)
(* finite points is NaN.  Reading .y of a missing landmark throws.         *)
ServiceCalculateJointAngles(landmarks) ==
    LET Entry(joint, a, b, c) ==
            <<[joint |-> joint,
               angle |-> MathRound(ServiceCalculateAngle(landmarks.at[a],
                            landmarks.at[b], landmarks.at[c]))]>>
    IN  IF ~(ServiceLandmarkIds \subseteq landmarks.present)
        THEN [threw |-> TRUE, keyAngles |-> <<>>]
        ELSE [threw |-> FALSE,
              keyAngles |->
                 Entry("Right Elbow", 11, 13, 15) \o Entry("Left Elbow", 12, 14, 16)
                 \o Entry("Right Knee", 23, 25, 27) \o Entry("Left Knee", 24, 26, 28)
                 \o Entry("Right Shoulder", 11, 13, 23)
                 \o Entry("Left Shoulder", 12, 14, 24)]

(* A standing figure, image coordinates (y grows downwards): the left side *)
(* at x = 3, the right side at x = 1; each wrist hangs down, points        *)
(* sideways or is raised to the shoulder.                                  *)
Pt(x, y) == [x |-> x, y |-> y]

LeftWristChoices == {Pt(3, 3), Pt(4, 2), Pt(3, 1)}

RightWristChoices == {Pt(1, 3), Pt(0, 2), Pt(1, 1)}

Figure(leftWrist, rightWrist) ==
    [i \in LandmarkIds |->
        CASE i = 11 -> Pt(3, 1) [] i = 12 -> Pt(1, 1)
          [] i = 13 -> Pt(3, 2) [] i = 14 -> Pt(1, 2)
          [] i = 15 -> leftWrist [] i = 16 -> rightWrist
          [] i = 19 -> Pt(3, 4) [] i = 20 -> Pt(1, 4)
          [] i = 23 -> Pt(3, 3) [] i = 24 -> Pt(1, 3)
          [] i = 25 -> Pt(3, 4) [] i = 26 -> Pt(1, 4)
          [] i = 27 -> Pt(3, 5) [] i = 28 -> Pt(1, 5)
          [] i = 31 -> Pt(4, 5) [] i = 32 -> Pt(0, 5)]

InitGeo ==
    /\ video = [id \in PlayerIds |-> NoVideo]
    /\ app = IdleApp
    /\ hga = IdleHga
    /\ cmf = IdleCmf
    /\ fpm = IdleFpm
    /\ svc = IdleSvc
    /\ oracleCalls = <<>>
    /\ samplerCalls = <<>>
    /\ mv = IdleMv
    /\ env = [ctxFailures |-> 0]
    /\ geo = IdleGeo

(* calculateAngle(a, b, c) on three points of the grid *)
GeoAngle ==
    /\ geo.pc = "idle"
    /\ \E a \in Points : \E b \in Points : \E c \in Points :
          geo' = [pc |-> "angle", a |-> a, b |-> b, c |-> c,
                  angle |-> CalculateAngle(a, b, c),
                  serviceAngle |-> ServiceCalculateAngle(a, b, c)]
    /\ UNCHANGED <<video, app, hga, cmf, fpm, svc, oracleCalls, samplerCalls, mv, env>>

(* A pose: the landmark list of a detection, with at most MaxMissing       *)
(* entries absent.                                                         *)
GeoPose ==
    /\ geo.pc = "idle"
    /\ \E leftWrist \in LeftWristChoices : \E rightWrist \in RightWristChoices :
       \E missing \in SUBSET LandmarkIds :
          /\ Cardinality(missing) <= MaxMissing
          /\ geo' = [pc |-> "pose",
                     landmarks |-> [present |-> LandmarkIds \ missing,
                                    at |-> Figure(leftWrist, rightWrist)],
                     drawn |-> FALSE, angles |-> <<>>, overlay |-> <<>>,
                     analysed |-> FALSE, threw |-> FALSE, keyAngles |-> <<>>]
    /\ UNCHANGED <<video, app, hga, cmf, fpm, svc, oracleCalls, samplerCalls, mv, env>>

(* onFrameDraw with a pose: angs = calculateAllJointAngles(landmarks);     *)
(* drawAnglesOnCanvas(ctx, livePose, angs, ...)                            *)
GeoOnFrameDraw ==
    /\ geo.pc = "pose"
    /\ ~geo.drawn
    /\ LET angs == CalculateAllJointAngles(geo.landmarks)
       IN  geo' = [geo EXCEPT !.drawn = TRUE, !.angles = angs,
                     !.overlay = DrawAnglesOnCanvas(geo.landmarks, angs)]
    /\ UNCHANGED <<video, app, hga, cmf, fpm, svc, oracleCalls, samplerCalls, mv, env>>

(* analyzePoseGeometry(view.poseData).keyAngles, the CALCULATED ANGLES of  *)
(* the prompt of analyzeMultiViewMovement                                  *)
GeoAnalyzePose ==
    /\ geo.pc = "pose"
    /\ ~geo.analysed
    /\ LET analysis == ServiceCalculateJointAngles(geo.landmarks)
       IN  geo' = [geo EXCEPT !.analysed = TRUE, !.threw = analysis.threw,
                     !.keyAngles = analysis.keyAngles]
    /\ UNCHANGED <<video, app, hga, cmf, fpm, svc, oracleCalls, samplerCalls, mv, env>>

(* The vertical positions of shoulders and hips handed to analyzeSymmetry, *)
(* in 1/100 of the frame height: differences of 0, 0.02, 0.03, 0.05, 0.06 *)
(* and 0.08 occur.                                                         *)
SymmetryYs == {40, 42, 45, 48}

(* threshold of 0.05 (5% of screen height) *)
TiltThreshold == 5

(* A symmetry check that calls a deviation of exactly the threshold level. *)
AnalyzeSymmetryInclusive(ls, rs, lh, rh) ==
    LET shoulderTilt == Abs(ls.y - rs.y)
        hipTilt == Abs(lh.y - rh.y)
    IN  [shouldersLevel |-> shoulderTilt <= TiltThreshold,
         hipsLevel |-> hipTilt <= TiltThreshold,
         shoulderTiltRaw |-> shoulderTilt,
         hipTiltRaw |-> hipTilt]

(* analyzeSymmetry on landmarks 11, 12, 23, 24 *)
AnalyzeSymmetry(ls, rs, lh, rh) ==
    LET shoulderTilt == Abs(ls.y - rs.y)
        hipTilt == Abs(lh.y - rh.y)
    IN  [shouldersLevel |-> shoulderTilt < TiltThreshold,
         hipsLevel |-> hipTilt < TiltThreshold,
         shoulderTiltRaw |-> shoulderTilt,
         hipTiltRaw |-> hipTilt]

(* analyzeSymmetry(landmarks) on a pose with shoulders and hips present *)
GeoSymmetry ==
    /\ geo.pc = "idle"
    /\ \E lsy \in SymmetryYs : \E rsy \in SymmetryYs :
       \E lhy \in SymmetryYs : \E rhy \in SymmetryYs :
          LET ls == Pt(3, lsy)
              rs == Pt(1, rsy)
              lh == Pt(3, lhy)
              rh == Pt(1, rhy)
          IN  geo' = [pc |-> "symmetry", ls |-> ls, rs |-> rs, lh |-> lh, rh |-> rh,
                      symmetry |-> AnalyzeSymmetry(ls, rs, lh, rh)]
    /\ UNCHANGED <<video, app, hga, cmf, fpm, svc, oracleCalls, samplerCalls, mv, env>>

NextGeo ==
    \/ GeoAngle
    \/ GeoPose
    \/ GeoOnFrameDraw
    \/ GeoAnalyzePose
    \/ GeoSymmetry

SpecGeo == InitGeo /\ [][NextGeo]_vars

----------------------------------------------------------------------------
(* Claims about the angle functions, checked under SpecGeo *)

(* C18: for every pose, the angle attached to a joint name in the          *)
(* telemetry text sent to the oracle equals the value drawn for the same   *)
(* joint name in the on-frame overlay.                                     *)
CexC18_TelemetryMatchesOverlay ==
    (geo.pc = "pose" /\ geo.drawn /\ geo.analysed /\ ~geo.threw)
        => \A i \in 1..Len(geo.keyAngles) : \A j \in 1..Len(geo.overlay) :
              geo.keyAngles[i].joint = geo.overlay[j].joint
                 => geo.keyAngles[i].angle = geo.overlay[j].angle

(* C19: calculateAngle(a, b, c) returns a value in [0, 180] for every      *)
(* three points of the grid, coincident and collinear ones included; so    *)
(* does the copy of the pose service.                                      *)
ThmC19_AngleInRange ==
    geo.pc = "angle"
        => /\ 0 <= geo.angle /\ geo.angle <= 180000
           /\ 0 <= geo.serviceAngle /\ geo.serviceAngle <= 180000

(* The rays b->a at -135 and b->c at 135 degrees differ by 270 degrees. *)
WitC19_ReflexDifference ==
    /\ geo.pc = "angle"
    /\ geo.a = Pt(0, 0) /\ geo.b = Pt(1, 1) /\ geo.c = Pt(0, 2)
    /\ Atan2(geo.c.y - geo.b.y, geo.c.x - geo.b.x)
         - Atan2(geo.a.y - geo.b.y, geo.a.x - geo.b.x) = 270000
    /\ geo.angle = 90000

(* The twelve joints in table order, each with the landmarks of its        *)
(* triple: proximal neighbour, joint, distal neighbour of the same side    *)
(* (left odd, right even).                                                 *)
JointOrder == <<"Left Shoulder", "Right Shoulder", "Left Elbow", "Right Elbow",
                "Left Wrist", "Right Wrist", "Left Hip", "Right Hip",
                "Left Knee", "Right Knee", "Left Ankle", "Right Ankle">>

TripleOf(joint) ==
    CASE joint = "Left Shoulder" -> {23, 11, 13} [] joint = "Right Shoulder" -> {24, 12, 14}
      [] joint = "Left Elbow" -> {11, 13, 15} [] joint = "Right Elbow" -> {12, 14, 16}
      [] joint = "Left Wrist" -> {13, 15, 19} [] joint = "Right Wrist" -> {14, 16, 20}
      [] joint = "Left Hip" -> {11, 23, 25} [] joint = "Right Hip" -> {12, 24, 26}
      [] joint = "Left Knee" -> {23, 25, 27} [] joint = "Right Knee" -> {24, 26, 28}
      [] joint = "Left Ankle" -> {25, 27, 31} [] joint = "Right Ankle" -> {26, 28, 32}

JointNames(angles) == [k \in 1..Len(angles) |-> angles[k].joint]

(* C20: the result of calculateAllJointAngles contains the entry of a      *)
(* joint of the 12-joint table exactly when all three landmarks of its     *)
(* triple exist, in table order; a set missing only the right wrist (16)   *)
(* lacks exactly Right Elbow and Right Wrist and keeps the other ten.      *)
ThmC20_EntryIffTripleExists ==
    (geo.pc = "pose" /\ geo.drawn)
        => /\ JointNames(geo.angles)
                = SelectSeq(JointOrder,
                            LAMBDA joint : TripleOf(joint) \subseteq geo.landmarks.present)
           /\ geo.landmarks.present = LandmarkIds \ {16}
                => JointNames(geo.angles)
                     = <<"Left Shoulder", "Right Shoulder", "Left Elbow",
                         "Left Wrist", "Left Hip", "Right Hip", "Left Knee",
                         "Right Knee", "Left Ankle", "Right Ankle">>

WitC20_RightWristMissing ==
    /\ geo.pc = "pose"
    /\ geo.drawn
    /\ geo.landmarks.present = LandmarkIds \ {16}
    /\ Len(geo.angles) = 10
    /\ geo.angles[3].joint = "Left Elbow"
    /\ geo.angles[4].joint = "Left Wrist"

(* C21: analyzeSymmetry reports shouldersLevel exactly when                *)
(* |leftShoulder.y - rightShoulder.y| < 0.05 and hipsLevel exactly when    *)
(* |leftHip.y - rightHip.y| < 0.05 (a deviation of exactly 0.05 is not     *)
(* level); each flag depends on its own pair only and the raw tilts are    *)
(* those absolute differences.                                             *)
ThmC21_SymmetryThreshold ==
    geo.pc = "symmetry" =>
        LET shoulderDiff == IF geo.ls.y >= geo.rs.y THEN geo.ls.y - geo.rs.y
                            ELSE geo.rs.y - geo.ls.y
            hipDiff == IF geo.lh.y >= geo.rh.y THEN geo.lh.y - geo.rh.y
                       ELSE geo.rh.y - geo.lh.y
        IN  /\ geo.symmetry.shouldersLevel <=> (shoulderDiff < 5)
            /\ geo.symmetry.hipsLevel <=> (hipDiff < 5)
            /\ geo.symmetry.shoulderTiltRaw = shoulderDiff
            /\ geo.symmetry.hipTiltRaw = hipDiff
            /\ shoulderDiff = 2 => geo.symmetry.shouldersLevel
            /\ shoulderDiff = 8 => ~geo.symmetry.shouldersLevel

(* Shoulders exactly 0.05 apart are not level while hips 0.02 apart are. *)
WitC21_ExactlyThreshold ==
    /\ geo.pc = "symmetry"
    /\ geo.ls.y = 45 /\ geo.rs.y = 40
    /\ geo.lh.y = 40 /\ geo.rh.y = 42
    /\ ~geo.symmetry.shouldersLevel
    /\ geo.symmetry.hipsLevel
    /\ geo.symmetry.shoulderTiltRaw = 5

====
